---- MODULE Spec2Model ----
(***************************************************************************)
(* Model of the program-info state of the playground client                *)
(* (utils/pg/program-info: storage, derived state, on-chain fetches) and   *)
(* of the tutorial level comparator (views/.../Tutorials/filters.ts).      *)
(*                                                                         *)
(* JavaScript values are boxed in records so that values of different      *)
(* JavaScript types can be compared: null is [null |-> TRUE], undefined    *)
(* is [undefined |-> TRUE], a thrown error is [error |-> msg], a PublicKey *)
(* is [bn |-> n] (web3.js keeps the key as a big number), a Keypair is     *)
(* [secretKey |-> bytes], a string is [str |-> s], a base58 string is      *)
(* [b58 |-> digits] (digits are alphabet indices, '1' is index 0), an      *)
(* array of numbers is [arr |-> seq].  A JavaScript object is a function   *)
(* from its own keys to values.                                            *)
(***************************************************************************)
EXTENDS Integers, Sequences, FiniteSets, TLC

VARIABLES
    workspace,   \* PgExplorer.currentWorkspaceName (NoWorkspace is the empty name)
    files,       \* PgExplorer.fs: workspace -> content of .workspace/program-info.json
    state,       \* internal state of PgProgramInfo (fields and derived fields)
    readRet,     \* outcome of the storage.read call made by the last step, or None
    readIO,      \* whether that storage.read call reached PgExplorer.fs.readToJSON
    readOf,      \* history: the state whose write produced the file that call read
    wrote,       \* history: workspace -> state passed to the last storage.write of its file
    connReady,   \* PgConnection.isReady(PgConnection.current)
    fpc,         \* position of the running _PgProgramInfo.fetch
    fetchArg,    \* programId argument of the running fetch
    fetchPid,    \* programId after `programId ??= PgProgramInfo.pk`
    calls,       \* getAccountInfo requests issued by the running fetch, in order
    progAcc,     \* response to the program account request
    dataAcc,     \* response to the program data account request
    fetchRet,    \* outcome of the fetch: a result object, undefined, or a thrown error
    logged,      \* whether the running fetch called console.log
    ipc,         \* position of the running _PgProgramInfo.fetchIdl
    idlCalls,    \* getAccountInfo requests issued by the running fetchIdl
    idlAcc,      \* response to the IDL account request
    idlRet,      \* outcome of fetchIdl: a result object, null, or a thrown error
    idlLogged,   \* whether the running fetchIdl called console.log
    items,       \* tutorial list handed to Array.prototype.sort
    sorted,      \* the list after sorting with sortByLevel, or None
    cmpArgs,     \* the pair last handed to sortByLevel
    cmpRet       \* what sortByLevel returned for it

vars == <<workspace, files, state, readRet, readIO, readOf, wrote, connReady,
          fpc, fetchArg, fetchPid, calls, progAcc, dataAcc, fetchRet, logged,
          ipc, idlCalls, idlAcc, idlRet, idlLogged, items, sorted, cmpArgs, cmpRet>>

storageVars == <<workspace, files, state, readRet, readIO, readOf, wrote>>
fetchVars == <<connReady, fpc, fetchArg, fetchPid, calls, progAcc, dataAcc,
               fetchRet, logged>>
idlVars == <<ipc, idlCalls, idlAcc, idlRet, idlLogged>>
sortVars == <<items, sorted, cmpArgs, cmpRet>>

----------------------------------------------------------------------------
(* Bounds of the model *)

\* Bytes of a public key.  web3.js uses 32; the model scales it down so that
\* the big-number and base58 arithmetic stays within machine integers.
PkLen == 2

\* Longest tutorial list that is sorted.
MaxItems == 3

----------------------------------------------------------------------------
(* JavaScript values *)

Null == [null |-> TRUE]
Undefined == [undefined |-> TRUE]
None == [none |-> TRUE]
Throw(msg) == [error |-> msg]
IsError(v) == "error" \in DOMAIN v
Nullish(v) == v = Null \/ v = Undefined

\* o[k] of a JavaScript object: undefined when o has no such key
Get(o, k) == IF k \in DOMAIN o THEN o[k] ELSE Undefined

\* { ...o, ...p }
Spread(o, p) == [k \in (DOMAIN o) \cup (DOMAIN p) |-> IF k \in DOMAIN p THEN p[k] ELSE o[k]]

\* JavaScript truthiness of the values the model holds: null, undefined and
\* the empty string are falsy; objects, arrays and non-empty strings truthy.
Truthy(v) ==
    /\ ~Nullish(v)
    /\ ("str" \in DOMAIN v => v.str # "")
    /\ ("b58" \in DOMAIN v => v.b58 # <<>>)

----------------------------------------------------------------------------
(* Bytes, big numbers and base58 (bs58 / bn.js as used by web3.js) *)

RECURSIVE Pow(_, _)
Pow(b, n) == IF n = 0 THEN 1 ELSE b * Pow(b, n - 1)

Zeros(n) == [i \in 1..n |-> 0]

RECURSIVE StripZeros(_)
StripZeros(bytes) ==
    IF bytes = <<>> \/ Head(bytes) # 0 THEN bytes ELSE StripZeros(Tail(bytes))

LeadingZeros(bytes) == Len(bytes) - Len(StripZeros(bytes))

\* big-endian value of a digit string in base `base`
RECURSIVE ValueOf(_, _)
ValueOf(digits, base) ==
    IF digits = <<>> THEN 0
    ELSE ValueOf(SubSeq(digits, 1, Len(digits) - 1), base) * base + digits[Len(digits)]

\* minimal big-endian digit string of n in base `base` (empty for 0)
RECURSIVE DigitsOf(_, _)
DigitsOf(n, base) ==
    IF n = 0 THEN <<>> ELSE Append(DigitsOf(n \div base, base), n % base)

\* BN.toArrayLike(Buffer, "be", n): n bytes, zero padded on the left
ToBytesBE(v, n) == [i \in 1..n |-> (v \div Pow(256, n - i)) % 256]

\* bs58.encode: one '1' per leading zero byte, then the base58 digits
bs58encode(bytes) ==
    Zeros(LeadingZeros(bytes)) \o DigitsOf(ValueOf(StripZeros(bytes), 256), 58)

\* bs58.decode: throws on a character outside the alphabet; one zero byte per
\* leading '1', then the minimal bytes of the number
bs58decode(str) ==
    IF \E i \in 1..Len(str) : str[i] \notin 0..57
    THEN Throw("Non-base58 character")
    ELSE [bytes |-> Zeros(LeadingZeros(str)) \o DigitsOf(ValueOf(StripZeros(str), 58), 256)]

\* new PublicKey(buffer): the bytes become a big number, which must fit PkLen bytes
PublicKeyFromBytes(buf) ==
    IF Len(StripZeros(buf)) > PkLen
    THEN Throw("Invalid public key input")
    ELSE [bn |-> ValueOf(StripZeros(buf), 256)]

\* new PublicKey(string): base58, and exactly PkLen bytes
PublicKeyFromString(str) ==
    LET d == bs58decode(str) IN
    IF IsError(d) THEN d
    ELSE IF Len(d.bytes) # PkLen THEN Throw("Invalid public key input")
    ELSE [bn |-> ValueOf(StripZeros(d.bytes), 256)]

\* PublicKey.toBase58()
toBase58(pk) == [b58 |-> bs58encode(ToBytesBE(pk.bn, PkLen))]

\* Public key of an ed25519 seed.  The curve arithmetic is replaced by a fixed
\* injective map on byte strings; only determinism and injectivity are used.
Ed25519Pub(seed) == [i \in 1..Len(seed) |-> (seed[i] * 7 + 3) % 256]

\* Keypair.fromSecretKey: seed followed by public key, validated
KeypairFromSecretKey(bytes) ==
    IF Len(bytes) # 2 * PkLen THEN Throw("bad secret key size")
    ELSE IF SubSeq(bytes, PkLen + 1, 2 * PkLen) # Ed25519Pub(SubSeq(bytes, 1, PkLen))
    THEN Throw("provided secretKey is invalid")
    ELSE [secretKey |-> bytes]

\* Keypair.publicKey
publicKey(kp) == PublicKeyFromBytes(SubSeq(kp.secretKey, PkLen + 1, 2 * PkLen))

\* Uint8Array.from(array): each number is taken modulo 256
Uint8ArrayFrom(a) == [i \in 1..Len(a) |-> a[i] % 256]

\* Array.from(uint8array)
ArrayFrom(bytes) == [arr |-> bytes]

----------------------------------------------------------------------------
(* Sample values the operations are driven with *)

Seeds == {Zeros(PkLen), [i \in 1..PkLen |-> IF i = 1 THEN 1 ELSE 255]}
Keypairs == {[secretKey |-> s \o Ed25519Pub(s)] : s \in Seeds}
PublicKeys == {[bn |-> n] : n \in {0, 58, Pow(256, PkLen) - 1}}
Uuids == {[str |-> ""], [str |-> "u1"]}
Idls == {[idl |-> "idl1"]}
ImportedPrograms == {[buffer |-> <<1, 2>>, fileName |-> "program.so"]}

\* PgExplorer.currentWorkspaceName is the empty string when none is selected
NoWorkspace == ""
Workspaces == {"ws1"}

----------------------------------------------------------------------------
(* PgExplorer.fs and JSON *)

NoFile == [nofile |-> TRUE]
Garbage == [garbage |-> TRUE]

\* JSON.stringify(object): keys whose value is undefined are left out
JSONstringify(o) == [json |-> [k \in {x \in DOMAIN o : o[x] # Undefined} |-> o[k]]]

\* PgExplorer.fs.readToJSON(path): throws when the file does not exist or
\* when its text is not JSON
readToJSON(content) ==
    IF content = NoFile THEN Throw("ENOENT")
    ELSE IF content = Garbage THEN Throw("SyntaxError")
    ELSE content.json

----------------------------------------------------------------------------
(* Program info state and its storage *)

defaultState ==
    [uuid |-> Null, kp |-> Null, customPk |-> Null, idl |-> Null, importedProgram |-> Null]

\* storage.read without its check of the workspace name
readNoGuard(ws, fs) ==
    IF IsError(readToJSON(fs[ws])) THEN [ret |-> defaultState, io |-> TRUE]
    ELSE [ret |-> Throw("unexpected file"), io |-> TRUE]

\* storage.read: [ret |-> the state returned or the error thrown,
\*                io |-> whether the file system was read]
read(ws, fs) ==
    IF ws = NoWorkspace THEN [ret |-> defaultState, io |-> FALSE]
    ELSE LET serializedState == readToJSON(fs[ws]) IN
         IF IsError(serializedState) THEN [ret |-> defaultState, io |-> TRUE]
         ELSE IF serializedState = Null
         THEN [ret |-> Throw("TypeError: Cannot read properties of null"), io |-> TRUE]
         ELSE LET kp == IF Truthy(Get(serializedState, "kp"))
                        THEN KeypairFromSecretKey(Uint8ArrayFrom(serializedState.kp.arr))
                        ELSE Null
                  customPk == IF Truthy(Get(serializedState, "customPk"))
                              THEN PublicKeyFromString(serializedState.customPk.b58)
                              ELSE Null
              IN IF IsError(kp) THEN [ret |-> kp, io |-> TRUE]
                 ELSE IF IsError(customPk) THEN [ret |-> customPk, io |-> TRUE]
                 ELSE [ret |-> Spread(serializedState,
                                      [kp |-> kp, customPk |-> customPk,
                                       importedProgram |-> defaultState.importedProgram]),
                       io |-> TRUE]

\* storage.write serializing with the spread operator: { ...state, kp, customPk }
writeSpread(s, ws, fs) ==
    IF ws = NoWorkspace THEN fs
    ELSE [fs EXCEPT ![ws] =
             JSONstringify(Spread(s,
                 [kp |-> IF Truthy(Get(s, "kp")) THEN ArrayFrom(s.kp.secretKey) ELSE Null,
                  customPk |-> IF Nullish(Get(s, "customPk")) THEN Null
                               ELSE toBase58(s.customPk)]))]

\* storage.write storing the public half of the key pair only
writeKpPublic(s, ws, fs) ==
    IF ws = NoWorkspace THEN fs
    ELSE [fs EXCEPT ![ws] =
             JSONstringify(
                 [uuid |-> Get(s, "uuid"),
                  idl |-> Get(s, "idl"),
                  kp |-> IF Truthy(Get(s, "kp"))
                         THEN ArrayFrom(SubSeq(s.kp.secretKey, PkLen + 1, 2 * PkLen))
                         ELSE Null,
                  customPk |-> IF Nullish(Get(s, "customPk")) THEN Null
                               ELSE toBase58(s.customPk)])]

\* storage.write: the file system after the call
write(s, ws, fs) ==
    IF ws = NoWorkspace THEN fs
    ELSE LET serializedState ==
                 [uuid |-> Get(s, "uuid"),
                  idl |-> Get(s, "idl"),
                  kp |-> IF Truthy(Get(s, "kp")) THEN ArrayFrom(s.kp.secretKey) ELSE Null,
                  customPk |-> IF Nullish(Get(s, "customPk")) THEN Null
                               ELSE toBase58(s.customPk)]
         IN [fs EXCEPT ![ws] = JSONstringify(serializedState)]

\* derive().pk.derive giving the key pair priority
derive_pkKpFirst(s) ==
    IF Truthy(Get(s, "kp")) THEN publicKey(s.kp)
    ELSE IF Truthy(Get(s, "customPk")) THEN s.customPk
    ELSE Null

\* derive().pk.derive
derive_pk(s) ==
    IF Truthy(Get(s, "customPk")) THEN s.customPk
    ELSE IF Truthy(Get(s, "kp")) THEN publicKey(s.kp)
    ELSE Null

\* derive().pk.onChange
PkOnChange == {"kp", "customPk"}

\* _PgProgramInfo.getPkStr
getPkStr(s) == IF Nullish(Get(s, "pk")) THEN Null ELSE toBase58(s.pk)

\* _PgProgramInfo.getIdlStr
getIdlStr(s) == IF Truthy(Get(s, "idl")) THEN JSONstringify(s.idl) ELSE Null

\* PgProgramInfo.update({ [f]: v }) of the updatable/derivable decorators: the
\* field is set and the derived pk is recomputed when the field is one it
\* depends on
update(s, f, v) ==
    LET s1 == Spread(s, f :> v) IN
    IF f \in PkOnChange THEN Spread(s1, "pk" :> derive_pk(s1)) ELSE s1

\* What the decorators load at initialisation: the stored state over the
\* defaults, with the derived pk recomputed
loaded(s, ret) ==
    LET s1 == Spread(s, Spread(defaultState,
                               [k \in {x \in DOMAIN ret : ret[x] # Undefined} |-> ret[k]]))
    IN Spread(s1, "pk" :> derive_pk(s1))

FieldValues(f) ==
    CASE f = "uuid" -> Uuids \cup {Null}
      [] f = "kp" -> Keypairs \cup {Null}
      [] f = "customPk" -> PublicKeys \cup {Null}
      [] f = "idl" -> Idls \cup {Null}
      [] f = "importedProgram" -> ImportedPrograms \cup {Null}

InitStorage ==
    /\ workspace = NoWorkspace
    /\ files = [w \in Workspaces \cup {NoWorkspace} |-> NoFile]
    /\ state = Spread(defaultState, [pk |-> Null, onChain |-> Undefined])
    /\ readRet = None
    /\ readIO = FALSE
    /\ readOf = None
    /\ wrote = [w \in Workspaces \cup {NoWorkspace} |-> None]

\* The user opens, switches or closes a workspace
SwitchWorkspace(w) ==
    /\ w # workspace
    /\ workspace' = w
    /\ readRet' = None
    /\ readIO' = FALSE
    /\ readOf' = None
    /\ UNCHANGED <<files, state, wrote>>
    /\ UNCHANGED <<fetchVars, idlVars, sortVars>>

\* PgProgramInfo.update: the state changes and the change is written to storage
Update(f, v) ==
    /\ state' = update(state, f, v)
    /\ files' = write(state', workspace, files)
    /\ wrote' = IF workspace = NoWorkspace THEN wrote ELSE [wrote EXCEPT ![workspace] = state']
    /\ readRet' = None
    /\ readIO' = FALSE
    /\ readOf' = None
    /\ UNCHANGED workspace
    /\ UNCHANGED <<fetchVars, idlVars, sortVars>>

\* PgProgramInfo.init: storage.read, and the state is replaced by what it
\* returned; when it throws the state stays
LoadState ==
    LET r == read(workspace, files) IN
    /\ readRet' = r.ret
    /\ readIO' = r.io
    /\ readOf' = wrote[workspace]
    /\ state' = IF IsError(r.ret) THEN state ELSE loaded(state, r.ret)
    /\ UNCHANGED <<workspace, files, wrote>>
    /\ UNCHANGED <<fetchVars, idlVars, sortVars>>

----------------------------------------------------------------------------
(* _PgProgramInfo.fetch *)

\* Buffer.slice(from) and Buffer.slice(from, to), offsets counted from 0
sliceFrom(data, from) == SubSeq(data, from + 1, Len(data))
slice(data, from, to) == SubSeq(data, from + 1, IF to < Len(data) THEN to ELSE Len(data))

\* programAccountInfo.data.slice(4)
ProgramDataPkOffset == 4
\* programDataAccountInfo.data.at(12)
AuthorityFlagIndex == 12
\* programDataAccountInfo.data.slice(13, 45): the PkLen bytes from offset 13
AuthorityStart == 13
AuthorityEnd == AuthorityStart + PkLen

IsAccount(r) == "data" \in DOMAIN r

\* What getAccountInfo can answer for the program account: an RPC error, no
\* account, a program of the upgradeable loader (tag, then the address of its
\* program data account), an account with fewer than 4 bytes, and an account
\* whose bytes after the first 4 are no public key (a non-upgradeable program)
ProgramAccountReplies ==
    {Throw("rpc"), Null}
    \cup {[data |-> <<2, 0, 0, 0>> \o ToBytesBE(k.bn, PkLen)] : k \in PublicKeys}
    \cup {[data |-> <<2, 0>>], [data |-> [i \in 1..(ProgramDataPkOffset + PkLen + 1) |-> 127]]}

\* What getAccountInfo can answer for the program data account: an RPC error,
\* no account, an account too short to hold the authority flag, one without
\* authority, one with an authority followed by the program bytes, and one cut
\* off inside the authority
ProgramDataReplies ==
    {Throw("rpc"), Null}
    \cup {[data |-> <<3, 0, 0, 0, 0>>]}
    \cup {[data |-> <<3, 0, 0, 0>> \o Zeros(8) \o <<0>> \o Zeros(PkLen)]}
    \cup {[data |-> <<3, 0, 0, 0>> \o Zeros(8) \o <<1>> \o ToBytesBE(k.bn, PkLen) \o <<127, 69>>] :
            k \in PublicKeys}
    \cup {[data |-> <<3, 0, 0, 0>> \o Zeros(8) \o <<1, 9>>]}

FetchArgs == {Undefined, Null} \cup PublicKeys

\* fetch without its try/catch: the error reaches the caller
fetchRethrow(e) == [ret |-> e, logged |-> FALSE]

\* catch (e) { console.log(...) }: the error is logged and fetch returns undefined
fetchCatch(e) == [ret |-> Undefined, logged |-> TRUE]

\* The early returns of fetch without the check of the connection
fetchReturnsEarlyNoReady(ready, programId, pk) == ~Truthy(programId) /\ ~Truthy(pk)

\* The early returns of fetch: whether it returns before any request
fetchReturnsEarly(ready, programId, pk) ==
    ~ready \/ (~Truthy(programId) /\ ~Truthy(pk))

\* The authority check testing only that the byte is there
authorityExistsNoFlag(acc) == acc # Null /\ Len(acc.data) > AuthorityFlagIndex

\* programDataAccountInfo?.data.at(12), as a condition
authorityExists(acc) ==
    /\ acc # Null
    /\ Len(acc.data) > AuthorityFlagIndex
    /\ acc.data[AuthorityFlagIndex + 1] # 0

\* fetch from the answer to the first request up to the second request:
\* [next |-> position, ret, logged, calls |-> requests issued so far]
afterProgramAccount(reply, issued) ==
    IF IsError(reply)
    THEN [next |-> "done", calls |-> issued] @@ fetchCatch(reply)
    ELSE LET deployed == reply # Null IN
         IF reply = Null
         THEN [next |-> "done", calls |-> issued, logged |-> FALSE,
               ret |-> [deployed |-> deployed, upgradable |-> TRUE]]
         ELSE LET programDataPk ==
                      PublicKeyFromBytes(sliceFrom(reply.data, ProgramDataPkOffset))
              IN IF IsError(programDataPk)
                 THEN [next |-> "done", calls |-> issued] @@ fetchCatch(programDataPk)
                 ELSE [next |-> "await2", calls |-> Append(issued, programDataPk),
                       logged |-> FALSE, ret |-> None]

\* fetch from the answer to the second request to its return
afterProgramData(reply, programAccountInfo) ==
    IF IsError(reply) THEN fetchCatch(reply)
    ELSE LET deployed == programAccountInfo # Null IN
         IF ~authorityExists(reply)
         THEN [logged |-> FALSE, ret |-> [deployed |-> deployed, upgradable |-> FALSE]]
         ELSE LET upgradeAuthorityPk ==
                      PublicKeyFromBytes(slice(reply.data, AuthorityStart, AuthorityEnd))
              IN IF IsError(upgradeAuthorityPk) THEN fetchCatch(upgradeAuthorityPk)
                 ELSE [logged |-> FALSE,
                       ret |-> [deployed |-> deployed, authority |-> upgradeAuthorityPk,
                                upgradable |-> TRUE]]

InitFetch ==
    /\ connReady = FALSE
    /\ fpc = "idle"
    /\ fetchArg = None
    /\ fetchPid = None
    /\ calls = <<>>
    /\ progAcc = None
    /\ dataAcc = None
    /\ fetchRet = None
    /\ logged = FALSE

\* PgConnection.onDidChangeCurrent: the connection becomes ready or stops being so
ConnChange ==
    /\ connReady' = ~connReady
    /\ UNCHANGED <<fpc, fetchArg, fetchPid, calls, progAcc, dataAcc, fetchRet, logged>>
    /\ UNCHANGED <<storageVars, idlVars, sortVars>>

\* fetch is called: it returns undefined at once, or issues the first request.
\* The call without argument is the one the derived state `onChain` makes.
FetchCall(programId) ==
    /\ fpc = "idle"
    /\ fetchArg' = programId
    /\ progAcc' = None
    /\ dataAcc' = None
    /\ logged' = FALSE
    /\ IF fetchReturnsEarly(connReady, programId, Get(state, "pk"))
       THEN /\ fpc' = "done"
            /\ fetchPid' = None
            /\ calls' = <<>>
            /\ fetchRet' = Undefined
       ELSE /\ fpc' = "await1"
            /\ fetchPid' = IF Nullish(programId) THEN state.pk ELSE programId
            /\ calls' = <<fetchPid'>>
            /\ fetchRet' = None
    /\ UNCHANGED connReady
    /\ UNCHANGED <<storageVars, idlVars, sortVars>>

\* the first getAccountInfo settles
FetchProgramAccount(reply) ==
    /\ fpc = "await1"
    /\ LET r == afterProgramAccount(reply, calls) IN
       /\ progAcc' = reply
       /\ fpc' = r.next
       /\ calls' = r.calls
       /\ fetchRet' = r.ret
       /\ logged' = r.logged
    /\ UNCHANGED <<connReady, fetchArg, fetchPid, dataAcc>>
    /\ UNCHANGED <<storageVars, idlVars, sortVars>>

\* the second getAccountInfo settles
FetchProgramData(reply) ==
    /\ fpc = "await2"
    /\ LET r == afterProgramData(reply, progAcc) IN
       /\ dataAcc' = reply
       /\ fpc' = "done"
       /\ fetchRet' = r.ret
       /\ logged' = r.logged
    /\ UNCHANGED <<connReady, fetchArg, fetchPid, calls, progAcc>>
    /\ UNCHANGED <<storageVars, idlVars, sortVars>>

\* the caller receives the outcome; the derivable stores it as `onChain`
FetchReturn ==
    /\ fpc = "done"
    /\ fpc' = "idle"
    /\ state' = IF fetchArg = Undefined /\ ~IsError(fetchRet)
                THEN Spread(state, "onChain" :> fetchRet)
                ELSE state
    /\ fetchArg' = None
    /\ fetchPid' = None
    /\ calls' = <<>>
    /\ progAcc' = None
    /\ dataAcc' = None
    /\ fetchRet' = None
    /\ logged' = FALSE
    /\ UNCHANGED <<connReady, workspace, files, readRet, readIO, readOf, wrote>>
    /\ UNCHANGED <<idlVars, sortVars>>

----------------------------------------------------------------------------
(* _PgProgramInfo.fetchIdl *)

\* decodeIdlAccount is handed accountInfo.data.slice(8)
IdlDiscriminatorLen == 8

\* idlAddress(programId): the address derived from the program id.  The hash
\* behind it is replaced by a fixed map on keys.
idlAddress(programId) == [bn |-> (programId.bn * 31 + 17) % Pow(256, PkLen)]

\* decodeIdlAccount(bytes): authority, then the compressed IDL; throws when
\* the bytes are too few
decodeIdlAccount(bytes) ==
    IF Len(bytes) < PkLen + 1 THEN Throw("borsh: unexpected end of buffer")
    ELSE [authority |-> PublicKeyFromBytes(SubSeq(bytes, 1, PkLen)),
          data |-> sliceFrom(bytes, PkLen)]

\* JSON.parse(PgBytes.toUtf8(Buffer.from(inflate(data)))): the one byte string
\* <<1>> stands for a well-formed compressed IDL, any other for a broken one
inflateAndParse(data) ==
    IF data = <<1>> THEN [idl |-> "idl1"] ELSE Throw("incorrect header check")

\* What getAccountInfo can answer for the IDL account: an RPC error, no
\* account, a well-formed IDL account, one cut off, one with a broken payload
IdlAccountReplies ==
    {Throw("rpc"), Null}
    \cup {[data |-> Zeros(IdlDiscriminatorLen) \o ToBytesBE(k.bn, PkLen) \o <<1>>] :
            k \in PublicKeys}
    \cup {[data |-> Zeros(IdlDiscriminatorLen) \o <<7>>]}
    \cup {[data |-> Zeros(IdlDiscriminatorLen) \o Zeros(PkLen) \o <<99>>]}

\* fetchIdl with the try/catch of fetch around it
idlCatch(e) == [ret |-> Null, logged |-> TRUE]

\* An error inside fetchIdl: nothing catches it, the returned promise rejects
idlFailure(e) == [ret |-> e, logged |-> FALSE]

\* fetchIdl from the answer to its request to its return
afterIdlAccount(reply) ==
    IF IsError(reply) THEN idlFailure(reply)
    ELSE IF reply = Null THEN [ret |-> Null, logged |-> FALSE]
    ELSE LET idlAccount == decodeIdlAccount(sliceFrom(reply.data, IdlDiscriminatorLen)) IN
         IF IsError(idlAccount) THEN idlFailure(idlAccount)
         ELSE LET idl == inflateAndParse(idlAccount.data) IN
              IF IsError(idl) THEN idlFailure(idl)
              ELSE [ret |-> [idl |-> idl, authority |-> idlAccount.authority],
                    logged |-> FALSE]

InitIdl ==
    /\ ipc = "idle"
    /\ idlCalls = <<>>
    /\ idlAcc = None
    /\ idlRet = None
    /\ idlLogged = FALSE

\* fetchIdl is called: it returns null at once, or issues its request
IdlCall(programId) ==
    /\ ipc = "idle"
    /\ idlAcc' = None
    /\ idlLogged' = FALSE
    /\ LET pid == IF Truthy(programId) THEN programId ELSE Get(state, "pk") IN
       IF ~Truthy(pid)
       THEN /\ ipc' = "done"
            /\ idlCalls' = <<>>
            /\ idlRet' = Null
       ELSE /\ ipc' = "await"
            /\ idlCalls' = <<idlAddress(pid)>>
            /\ idlRet' = None
    /\ UNCHANGED <<storageVars, fetchVars, sortVars>>

\* the getAccountInfo of fetchIdl settles
IdlAccount(reply) ==
    /\ ipc = "await"
    /\ LET r == afterIdlAccount(reply) IN
       /\ idlAcc' = reply
       /\ ipc' = "done"
       /\ idlRet' = r.ret
       /\ idlLogged' = r.logged
    /\ UNCHANGED idlCalls
    /\ UNCHANGED <<storageVars, fetchVars, sortVars>>

\* the caller receives the outcome
IdlReturn ==
    /\ ipc = "done"
    /\ ipc' = "idle"
    /\ idlCalls' = <<>>
    /\ idlAcc' = None
    /\ idlRet' = None
    /\ idlLogged' = FALSE
    /\ UNCHANGED <<storageVars, fetchVars, sortVars>>

----------------------------------------------------------------------------
(* Tutorial filters: sortByLevel *)

\* TUTORIAL_LEVELS of utils/pg
TUTORIAL_LEVELS == <<"Beginner", "Intermediate", "Advanced">>

\* Array.prototype.indexOf, counted from 0; -1 when absent
indexOf(arr, x) ==
    IF \E i \in 1..Len(arr) : arr[i] = x
    THEN (CHOOSE i \in 1..Len(arr) : arr[i] = x /\ \A j \in 1..(i - 1) : arr[j] # x) - 1
    ELSE -1

\* sortByLevel with its operands exchanged
sortByLevelReversed(a, b) ==
    indexOf(TUTORIAL_LEVELS, b.level) - indexOf(TUTORIAL_LEVELS, a.level)

sortByLevel(a, b) == indexOf(TUTORIAL_LEVELS, a.level) - indexOf(TUTORIAL_LEVELS, b.level)

Tutorials ==
    {[name |-> n, level |-> TUTORIAL_LEVELS[i]] : n \in {"t1", "t2"}, i \in 1..Len(TUTORIAL_LEVELS)}

\* insertion of x into a list already sorted, after the elements it does not precede
RECURSIVE insertSorted(_, _)
insertSorted(x, list) ==
    IF list = <<>> THEN <<x>>
    ELSE IF sortByLevel(x, Head(list)) < 0 THEN <<x>> \o list
    ELSE <<Head(list)>> \o insertSorted(x, Tail(list))

\* Array.prototype.sort(sortByLevel): a stable sort driven by the comparator
RECURSIVE arraySort(_)
arraySort(list) ==
    IF list = <<>> THEN <<>>
    ELSE insertSorted(list[Len(list)], arraySort(SubSeq(list, 1, Len(list) - 1)))

InitSortIdle ==
    /\ items = <<>>
    /\ sorted = None
    /\ cmpArgs = None
    /\ cmpRet = None

\* sortByLevel is called on a pair of tutorials
Compare(a, b) ==
    /\ cmpArgs' = [a |-> a, b |-> b]
    /\ cmpRet' = [num |-> sortByLevel(a, b)]
    /\ UNCHANGED <<items, sorted>>
    /\ UNCHANGED <<storageVars, fetchVars, idlVars>>

\* the tutorial list is sorted with the sort function of the level filter
Sort ==
    /\ sorted = None
    /\ sorted' = [list |-> arraySort(items)]
    /\ UNCHANGED <<items, cmpArgs, cmpRet>>
    /\ UNCHANGED <<storageVars, fetchVars, idlVars>>

----------------------------------------------------------------------------
(* Specifications *)

Init == InitStorage /\ InitFetch /\ InitIdl /\ InitSortIdle

\* The program info state and its storage
Next ==
    \/ \E w \in Workspaces \cup {NoWorkspace} : SwitchWorkspace(w)
    \/ \E f \in DOMAIN defaultState : \E v \in FieldValues(f) : Update(f, v)
    \/ LoadState

Spec == Init /\ [][Next]_vars

\* What else can be found at the path of the program info: no file, text that
\* is not JSON, the JSON text `null`, an object with few fields, a key pair of
\* the wrong size, a key pair whose halves do not match, a custom public key
\* with a character outside base58 and one of the wrong length
ForeignContents ==
    {NoFile, Garbage, [json |-> Null],
     [json |-> [uuid |-> [str |-> "u1"]]],
     [json |-> [uuid |-> Null, idl |-> Null, customPk |-> Null, kp |-> [arr |-> <<1, 2, 3>>]]],
     [json |-> [uuid |-> Null, idl |-> Null, customPk |-> Null,
                kp |-> [arr |-> Zeros(2 * PkLen)]]],
     [json |-> [uuid |-> Null, idl |-> Null, kp |-> Null, customPk |-> [b58 |-> <<58>>]]],
     [json |-> [uuid |-> Null, idl |-> Null, kp |-> Null, customPk |-> [b58 |-> <<1>>]]]}

\* The file of the program info is deleted or overwritten through
\* PgExplorer.fs by something other than storage.write
ExternalWrite(w, content) ==
    /\ files[w] # content
    /\ files' = [files EXCEPT ![w] = content]
    /\ wrote' = [wrote EXCEPT ![w] = None]
    /\ readRet' = None
    /\ readIO' = FALSE
    /\ readOf' = None
    /\ UNCHANGED <<workspace, state>>
    /\ UNCHANGED <<fetchVars, idlVars, sortVars>>

\* The program info over a file system that other code writes too
NextFs ==
    \/ \E w \in Workspaces \cup {NoWorkspace} : SwitchWorkspace(w)
    \/ \E f \in DOMAIN defaultState : \E v \in FieldValues(f) : Update(f, v)
    \/ LoadState
    \/ \E w \in Workspaces : \E c \in ForeignContents : ExternalWrite(w, c)

SpecFs == Init /\ [][NextFs]_vars

\* fetch, with the program id changing under it
NextFetch ==
    \/ \E f \in PkOnChange : \E v \in FieldValues(f) : Update(f, v)
    \/ ConnChange
    \/ \E programId \in FetchArgs : FetchCall(programId)
    \/ \E reply \in ProgramAccountReplies : FetchProgramAccount(reply)
    \/ \E reply \in ProgramDataReplies : FetchProgramData(reply)
    \/ FetchReturn

SpecFetch == Init /\ [][NextFetch]_vars

\* fetchIdl, with the program id changing under it
NextIdl ==
    \/ \E f \in PkOnChange : \E v \in FieldValues(f) : Update(f, v)
    \/ \E programId \in FetchArgs : IdlCall(programId)
    \/ \E reply \in IdlAccountReplies : IdlAccount(reply)
    \/ IdlReturn

SpecIdl == Init /\ [][NextIdl]_vars

\* sortByLevel and the sort it drives, over every list of up to MaxItems tutorials
TutorialLists == UNION {[1..n -> Tutorials] : n \in 0..MaxItems}

InitSort ==
    /\ InitStorage /\ InitFetch /\ InitIdl
    /\ items \in TutorialLists
    /\ sorted = None
    /\ cmpArgs = None
    /\ cmpRet = None

NextSort ==
    \/ \E a \in Tutorials : \E b \in Tutorials : Compare(a, b)
    \/ Sort

SpecSort == InitSort /\ [][NextSort]_vars

----------------------------------------------------------------------------
(* Claims *)

SerializedFields == {"uuid", "kp", "customPk", "idl"}
CoreFields(s) == [f \in DOMAIN defaultState |-> Get(s, f)]

\* The file the last storage.read was asked to load cannot be loaded
LoadFails ==
    LET content == files[workspace] IN
    \/ IsError(readToJSON(content))
    \/ content.json = Null
    \/ /\ Truthy(Get(content.json, "kp"))
       /\ IsError(KeypairFromSecretKey(Uint8ArrayFrom(content.json.kp.arr)))
    \/ /\ Truthy(Get(content.json, "customPk"))
       /\ IsError(PublicKeyFromString(content.json.customPk.b58))

\* C1: storage.read never throws, and whenever the program info cannot be
\* loaded (no file, unreadable text, content that is no key pair / public key)
\* it returns the default state with every field null.
C1_ReadFallsBackToDefault ==
    (readRet # None /\ workspace # NoWorkspace) =>
        /\ ~IsError(readRet)
        /\ LoadFails => readRet = defaultState

\* A fetch that has ended met a failure: a request failed, or the bytes of the
\* program account gave no public key
FetchFailed ==
    \/ IsError(progAcc)
    \/ IsError(dataAcc)
    \/ /\ IsAccount(progAcc)
       /\ Len(StripZeros(sliceFrom(progAcc.data, ProgramDataPkOffset))) > PkLen

\* C2: no step of fetch lets an error reach the caller or changes the fields
\* of the program info, and a fetch that met a failure logs it and returns
\* undefined.
C2_FetchCatchesFailures ==
    [][fpc' # fpc =>
          /\ ~IsError(fetchRet')
          /\ CoreFields(state') = CoreFields(state)
          /\ (fpc' = "done" /\ FetchFailed') => (fetchRet' = Undefined /\ logged')]_vars

C2_Witness ==
    /\ fpc = "done" /\ IsError(dataAcc) /\ fetchRet = Undefined /\ logged
    /\ state.pk # Null

\* A fetchIdl that has ended met a failure: its request failed, or the account
\* could not be decoded, inflated or parsed
IdlFailed ==
    \/ IsError(idlAcc)
    \/ /\ IsAccount(idlAcc)
       /\ LET a == decodeIdlAccount(sliceFrom(idlAcc.data, IdlDiscriminatorLen)) IN
          IsError(a) \/ IsError(inflateAndParse(a.data))

\* C3 as stated: a fetchIdl that met a failure logs it and returns an absent
\* result instead of an error.
C3_FetchIdlCatchesFailures ==
    (ipc = "done" /\ IdlFailed) => (Nullish(idlRet) /\ idlLogged)

\* C3 amended: a fetchIdl that met a failure hands the error to its caller and
\* logs nothing; it returns null only when there is no program id or the IDL
\* account does not exist.
C3_FetchIdlPropagatesFailures ==
    ipc = "done" =>
        /\ IdlFailed => (IsError(idlRet) /\ ~idlLogged)
        /\ idlRet = Null => (idlCalls = <<>> \/ idlAcc = Null)

C3_Witness == ipc = "done" /\ IsError(idlAcc) /\ IsError(idlRet) /\ idlCalls # <<>>

\* C4: every program info file is a JSON object with exactly the fields uuid,
\* kp (bytes or null), customPk (base58 or null) and idl: neither the imported
\* program nor a derived field is stored.
C4_FileHasSerializedFieldsOnly ==
    \A w \in DOMAIN files :
        files[w] # NoFile =>
            /\ "json" \in DOMAIN files[w]
            /\ DOMAIN files[w].json = SerializedFields
            /\ LET o == files[w].json IN
               /\ \/ o.kp = Null
                  \/ /\ "arr" \in DOMAIN o.kp
                     /\ \A i \in 1..Len(o.kp.arr) : o.kp.arr[i] \in 0..255
               /\ \/ o.customPk = Null
                  \/ /\ "b58" \in DOMAIN o.customPk
                     /\ \A i \in 1..Len(o.customPk.b58) : o.customPk.b58[i] \in 0..57

C4_Witness ==
    /\ workspace # NoWorkspace
    /\ wrote[workspace] = state
    /\ state.importedProgram # Null
    /\ state.pk # Null
    /\ files[workspace] # NoFile

\* C5: a storage.read of the file a storage.write(s) produced returns the uuid,
\* kp, customPk and idl of s (the same secret key, the same base58 value) and
\* a null importedProgram.
C5_WriteReadRoundTrip ==
    (readRet # None /\ readOf # None) =>
        /\ ~IsError(readRet)
        /\ \A f \in SerializedFields : Get(readRet, f) = Get(readOf, f)
        /\ readOf.customPk # Null => toBase58(readRet.customPk) = toBase58(readOf.customPk)
        /\ Get(readRet, "importedProgram") = Null

C5_Witness ==
    /\ readRet # None /\ readOf # None
    /\ readOf.kp # Null
    /\ readOf.customPk = [bn |-> 58]
    /\ readOf.uuid = [str |-> ""]
    /\ readOf.importedProgram # Null
    /\ readRet.customPk = readOf.customPk

C7_FetchRequestsInOrder ==
    [][/\ Len(calls') <= 2
       /\ (fpc = "idle" /\ fpc' # "idle"
             /\ (~connReady \/ (~Truthy(fetchArg') /\ ~Truthy(state.pk))))
            => (calls' = <<>> /\ fpc' = "done")
       /\ (calls' # calls /\ calls' # <<>>) =>
             \/ /\ fpc = "idle"
                /\ calls' = <<IF Nullish(fetchArg') THEN state.pk ELSE fetchArg'>>
             \/ /\ fpc = "await1" /\ Len(calls) = 1
                /\ IsAccount(progAcc')
                /\ calls' = Append(calls,
                       [bn |-> ValueOf(sliceFrom(progAcc'.data, ProgramDataPkOffset), 256)])
       /\ fpc' = "await1" => (Len(calls') = 1 /\ fpc \in {"idle", "await1"})
       /\ fpc' = "await2" => (Len(calls') = 2 /\ fpc \in {"await1", "await2"})]_vars

C7_Witness == fpc = "done" /\ Len(calls) = 2 /\ IsError(dataAcc)

\* The result of a fetch agrees with the two accounts, given the condition
\* under which the program data account counts as having no authority
FetchResultAgrees(noAuthority) ==
    LET r == fetchRet IN
    /\ r.deployed = (progAcc # Null)
    /\ progAcc = Null => r = [deployed |-> FALSE, upgradable |-> TRUE]
    /\ (progAcc # Null /\ noAuthority) => r = [deployed |-> TRUE, upgradable |-> FALSE]
    /\ (progAcc # Null /\ ~noAuthority) =>
          /\ r = [deployed |-> TRUE, upgradable |-> TRUE,
                  authority |-> [bn |-> ValueOf(slice(dataAcc.data, AuthorityStart,
                                                      AuthorityStart + PkLen), 256)]]
          /\ calls[2] = [bn |-> ValueOf(sliceFrom(progAcc.data, ProgramDataPkOffset), 256)]
    /\ "authority" \in DOMAIN r => (r.deployed /\ r.upgradable)

\* C8 as stated: the program data account has no authority when it is absent
\* or its byte at offset 12 is zero.
C8_FetchResultConsistent ==
    (fpc = "done" /\ fetchRet # Undefined) =>
        FetchResultAgrees(\/ dataAcc = Null
                          \/ /\ Len(dataAcc.data) > AuthorityFlagIndex
                             /\ dataAcc.data[AuthorityFlagIndex + 1] = 0)

\* C8 amended: the program data account has no authority when it is absent,
\* has no byte at offset 12, or that byte is zero.
C8_FetchResultConsistentShortData ==
    (fpc = "done" /\ fetchRet # Undefined) =>
        FetchResultAgrees(\/ dataAcc = Null
                          \/ Len(dataAcc.data) <= AuthorityFlagIndex
                          \/ dataAcc.data[AuthorityFlagIndex + 1] = 0)

C8_Witness ==
    /\ fpc = "done" /\ fetchRet # Undefined
    /\ "authority" \in DOMAIN fetchRet
    /\ fetchRet.authority = [bn |-> 58]
    /\ calls[2] # [bn |-> 0]

\* C9: with no workspace selected storage.read returns the default state
\* without reading the file system, and storage.write leaves every file as it
\* is.
C9_NoWorkspaceNoStorage ==
    [][workspace = NoWorkspace =>
          /\ files' = files
          /\ readRet' # None => (readRet' = defaultState /\ readIO' = FALSE)]_vars

\* read without a workspace answered the default state although the program
\* info of a workspace is on disk, and no file appeared outside that workspace
C9_Witness ==
    /\ workspace = NoWorkspace
    /\ readRet = defaultState /\ readIO = FALSE
    /\ files[NoWorkspace] = NoFile
    /\ \E w \in Workspaces : files[w] # NoFile /\ files[w].json.kp # Null

\* position of a level in TUTORIAL_LEVELS
LevelPosition(level) == CHOOSE i \in 1..Len(TUTORIAL_LEVELS) : TUTORIAL_LEVELS[i] = level

\* C10: sortByLevel is negative exactly when the first level comes earlier,
\* zero exactly when the levels are equal, antisymmetric and transitive, and a
\* list sorted with it is the same tutorials in the order of TUTORIAL_LEVELS.
C10_SortByLevelOrders ==
    /\ cmpRet # None =>
          LET a == cmpArgs.a
              b == cmpArgs.b
          IN /\ cmpRet.num < 0 <=> LevelPosition(a.level) < LevelPosition(b.level)
             /\ cmpRet.num = 0 <=> a.level = b.level
             /\ cmpRet.num > 0 <=> LevelPosition(a.level) > LevelPosition(b.level)
             /\ cmpRet.num = -sortByLevel(b, a)
             /\ \A c \in Tutorials :
                   (cmpRet.num <= 0 /\ sortByLevel(b, c) <= 0) => sortByLevel(a, c) <= 0
    /\ sorted # None =>
          /\ Len(sorted.list) = Len(items)
          /\ \A x \in Tutorials :
                Cardinality({i \in 1..Len(items) : items[i] = x})
                    = Cardinality({i \in 1..Len(items) : sorted.list[i] = x})
          /\ \A i \in 1..Len(items) : \A j \in i..Len(items) :
                LevelPosition(sorted.list[i].level) <= LevelPosition(sorted.list[j].level)

C10_Witness ==
    /\ sorted # None /\ Len(items) = MaxItems /\ sorted.list # items
    /\ cmpRet # None /\ cmpRet.num < 0

====
